---- MODULE Spec2Model ----
(***************************************************************************)
(* A model of the resolution engine of nodejs_resolver:                    *)
(*   src/src/resolve.rs              (primitive resolvers, node_modules    *)
(*                                    traversal, request splitting)        *)
(*   src/src/plugin/exports_field.rs (ExportsFieldPlugin::apply)           *)
(*                                                                         *)
(* Strings are sequences of characters, a character is a one-character     *)
(* TLA+ string.  The character "E" stands for U+00E9, which UTF-8 encodes  *)
(* in two bytes; every other character of the model is ASCII (one byte).   *)
(* Paths are sequences of segments, a segment is a string.                 *)
(***************************************************************************)
EXTENDS Naturals, Integers, Sequences, FiniteSets, TLC

VARIABLES world, arg, ret

vars == <<world, arg, ret>>

\* The longest request target the split specification enumerates.
MaxTargetLen == 5

\* Option and call outcomes are tagged records, so that any two compare.
None == [tag |-> "None"]
Some(v) == [tag |-> "Some", v |-> v]
\* A call that returned v without panicking.
Ret(v) == [tag |-> "Ret", v |-> v]
Panic == [tag |-> "Panic"]
Unset == [tag |-> "Unset"]

(***************************************************************************)
(* Rust strings: UTF-8 encoding, byte slicing                              *)
(***************************************************************************)

\* Number of bytes of a character in UTF-8.
Utf8Width(c) == IF c = "E" THEN 2 ELSE 1

\* The bytes of a string: each byte remembers its character and its place in it.
RECURSIVE Utf8Bytes(_)
Utf8Bytes(s) ==
    IF s = <<>> THEN <<>>
    ELSE [k \in 1..Utf8Width(Head(s)) |-> <<Head(s), k>>] \o Utf8Bytes(Tail(s))

\* Whether byte offset i (0-based) of the byte string bs is a character boundary.
IsCharBoundary(bs, i) ==
    \/ i = 0
    \/ i = Len(bs)
    \/ i < Len(bs) /\ bs[i + 1][2] = 1

\* The characters of a byte string that starts and ends on character boundaries.
RECURSIVE Utf8Decode(_)
Utf8Decode(bs) ==
    IF bs = <<>> THEN <<>>
    ELSE <<bs[1][1]>> \o Utf8Decode(SubSeq(bs, Utf8Width(bs[1][1]) + 1, Len(bs)))

\* &s[lo..hi]: the range is in bytes and panics off a character boundary.
StrSlice(s, lo, hi) ==
    LET bs == Utf8Bytes(s)
    IN  IF lo <= hi /\ hi <= Len(bs) /\ IsCharBoundary(bs, lo) /\ IsCharBoundary(bs, hi)
        THEN Ret(Utf8Decode(SubSeq(bs, lo + 1, hi)))
        ELSE Panic

\* str::starts_with for a one-character pattern.
StartsWith(s, c) == Len(s) > 0 /\ s[1] = c

(***************************************************************************)
(* Request target parsing (resolve.rs, 227-248)                            *)
(***************************************************************************)

\* target.chars().enumerate() filtered on '/': the 0-based CHARACTER indexes.
SlashIndexList(target) ==
    LET RECURSIVE Collect(_)
        Collect(i) ==
            IF i > Len(target) THEN <<>>
            ELSE (IF target[i] = "/" THEN <<i - 1>> ELSE <<>>) \o Collect(i + 1)
    IN  Collect(1)

\* The mutant takes the first '/' also for a scoped request.
split_slash_first_always(target) ==
    LET l == SlashIndexList(target)
    IN  IF Len(l) >= 1 THEN Some(l[1]) ELSE None

split_slash_from_request(target) ==
    LET has_namespace_scope == StartsWith(target, "@")
        slash_index_list == SlashIndexList(target)
    IN  IF has_namespace_scope
        THEN IF Len(slash_index_list) >= 2 THEN Some(slash_index_list[2]) ELSE None
        ELSE IF Len(slash_index_list) >= 1 THEN Some(slash_index_list[1]) ELSE None

Utf8Len(s) == Len(Utf8Bytes(s))

get_module_name_from_request(target) ==
    LET index == split_slash_from_request(target)
    IN  IF index = None THEN Ret(target) ELSE StrSlice(target, 0, index.v)

\* The mutant drops the '/' the subpath starts with.
get_path_skipping_slash(target) ==
    LET index == split_slash_from_request(target)
    IN  IF index = None THEN Ret(None)
        ELSE LET s == StrSlice(target, index.v + 1, Utf8Len(target))
             IN  IF s = Panic THEN Panic ELSE Ret(Some(s.v))

get_path_from_request(target) ==
    LET index == split_slash_from_request(target)
    IN  IF index = None THEN Ret(None)
        ELSE LET s == StrSlice(target, index.v, Utf8Len(target))
             IN  IF s = Panic THEN Panic ELSE Ret(Some(s.v))

(***************************************************************************)
(* Paths and the filesystem.  A path is its sequence of segments; the path *)
(* of the root directory is <<>>.  The last segment may be "" or ".": the  *)
(* path string then ends in "/" or "/.", which the operating system takes  *)
(* as the directory itself.  world.files and world.dirs hold the paths     *)
(* that exist; world.manifests maps a directory to its package.json.       *)
(***************************************************************************)

\* The pieces of a string between its '/' characters, empty pieces included.
RECURSIVE SplitSlash(_)
SplitSlash(s) ==
    IF \A i \in 1..Len(s) : s[i] # "/" THEN <<s>>
    ELSE LET i == CHOOSE k \in 1..Len(s) : s[k] = "/" /\ \A j \in 1..(k - 1) : s[j] # "/"
         IN  <<SubSeq(s, 1, i - 1)>> \o SplitSlash(SubSeq(s, i + 1, Len(s)))

IsMarker(seg) == seg = <<>> \/ seg = <<".">>

\* The segments a path string names: "" and "." pieces are dropped, except the
\* last piece, which tells a path string that ends in "/" or "/.".
Components(s) ==
    LET raw == SplitSlash(s)
        n == Len(raw)
    IN  SelectSeq(SubSeq(raw, 1, n - 1), LAMBDA g : ~IsMarker(g)) \o <<raw[n]>>

HasMarker(path) == path # <<>> /\ IsMarker(path[Len(path)])

\* The path with a trailing "/" or "/." removed: NormalizedPath.
Canon(path) == IF HasMarker(path) THEN SubSeq(path, 1, Len(path) - 1) ELSE path

\* Path::join: an absolute argument replaces the base.
PathJoin(base, s) ==
    IF StartsWith(s, "/") THEN Components(s) ELSE Canon(base) \o Components(s)

\* Path::parent of a normalized path: the root has none.
PathParent(path) ==
    IF path = <<>> THEN None ELSE Some(SubSeq(path, 1, Len(path) - 1))

\* Path::is_absolute of a configured module-storage name.
is_absolute(s) == StartsWith(s, "/")

\* load_entry(path).is_file(), .is_dir(), .exists()
is_file(path) == ~HasMarker(path) /\ path \in world.files
is_dir(path) == Canon(path) \in world.dirs
exists(path) == is_file(path) \/ is_dir(path)

Ok(v) == [tag |-> "Ok", v |-> v]
Err(e) == [tag |-> "Err", err |-> e]

\* The directory of the nearest package.json at or above a path.
RECURSIVE NearestManifestDir(_)
NearestManifestDir(path) ==
    IF path \in DOMAIN world.manifests THEN Some(path)
    ELSE IF path = <<>> THEN None
    ELSE NearestManifestDir(SubSeq(path, 1, Len(path) - 1))

\* load_entry(path).pkg_info(resolver): Result<Option<PkgInfo>, Error>
pkg_info(path) ==
    LET d == NearestManifestDir(Canon(path))
    IN  IF d = None THEN Ok(None)
        ELSE IF world.manifests[d.v].corrupt
        THEN Err([kind |-> "UnexpectedJson", at |-> d.v, what |-> <<>>])
        ELSE Ok(Some([dir |-> d.v,
                      name |-> world.manifests[d.v].name,
                      exports_field_tree |-> world.manifests[d.v].exports]))

(***************************************************************************)
(* Request, Info, State                                                    *)
(***************************************************************************)

Request(target, query, fragment) ==
    [target |-> target, query |-> query, fragment |-> fragment]

\* Request::is_directory: an empty target or one that ends in a separator.
is_directory(request) ==
    request.target = <<>> \/ request.target[Len(request.target)] = "/"

\* The characters that start a query and a fragment.
RECURSIVE TakeUntil(_, _)
TakeUntil(s, stops) ==
    IF s = <<>> \/ Head(s) \in stops THEN <<>> ELSE <<Head(s)>> \o TakeUntil(Tail(s), stops)

\* Resolver::parse: target, then "?query", then "#fragment".
Parse(item) ==
    LET target == TakeUntil(item, {"?", "#"})
        rest == SubSeq(item, Len(target) + 1, Len(item))
        query == IF StartsWith(rest, "?") THEN <<"?">> \o TakeUntil(Tail(rest), {"#"}) ELSE <<>>
    IN  Request(target, query, SubSeq(rest, Len(query) + 1, Len(rest)))

InfoNew(path, request) == [path |-> Canon(path), request |-> request]
with_path(info, path) == [info EXCEPT !.path = Canon(path)]
with_target(info, target) == [info EXCEPT !.request.target = target]
with_request(info, request) == [info EXCEPT !.request = request]
\* Info::to_resolved_path: a target of "" or "." names the base directory itself
\* (the borrowed case of the Cow), any other target is joined to it.
to_resolved_path(info) ==
    IF info.request.target \in {<<>>, <<".">>} THEN info.path
    ELSE PathJoin(info.path, info.request.target)

Resolving(info) == [tag |-> "Resolving", info |-> info]
Success(info) == [tag |-> "Success", info |-> info]
Failed(info) == [tag |-> "Failed", info |-> info]
Error(err) == [tag |-> "Error", err |-> err]

is_finished(state) == state.tag \in {"Success", "Error"}

\* What a call gives back: its State and the effects it had, in order.
Out(state, log) == [st |-> state, log |-> log]

\* One effect: a filesystem probe, a call of _resolve, the use of a plugin.
Ev(kind, path, request) == [ev |-> kind, path |-> path, req |-> request]
NoReq == Request(<<>>, <<>>, <<>>)

\* The effects of a step come after those already logged.
After(log, out) == Out(out.st, log \o out.log)

\* State::then hands a Resolving state to the next step and passes any other
\* state through: each Then... below is one `.then(|info| ...)` of the source.
IsResolving(out) == out.st.tag = "Resolving"

(***************************************************************************)
(* Primitive resolvers (resolve.rs, 17-71)                                 *)
(***************************************************************************)

\* format!("{}{ext}", path.display()): the extension is appended to the path
\* string, so to its last segment.
append_ext_for_path(path, ext) ==
    IF path = <<>> THEN <<ext>>
    ELSE [path EXCEPT ![Len(path)] = @ \o ext]

Probe(path) == Ev("probe", path, NoReq)

\* The mutant keeps looking after a match: the last matching extension wins.
resolve_file_with_ext_last_match(path, info) ==
    LET exts == world.options.extensions
        hits == {i \in 1..Len(exts) : is_file(append_ext_for_path(path, exts[i]))}
        log == [i \in 1..Len(exts) |-> Probe(append_ext_for_path(path, exts[i]))]
    IN  IF hits = {} THEN Out(Resolving(info), log)
        ELSE LET i == CHOOSE k \in hits : \A j \in hits : j <= k
             IN  Out(Success(with_target(with_path(info, append_ext_for_path(path, exts[i])),
                                         <<>>)), log)

resolve_file_with_ext(path, info) ==
    LET exts == world.options.extensions
        RECURSIVE Loop(_)
        Loop(i) ==
            IF i > Len(exts) THEN Out(Resolving(info), <<>>)
            ELSE LET p == append_ext_for_path(path, exts[i])
                 IN  IF is_file(p)
                     THEN Out(Success(with_target(with_path(info, p), <<>>)), <<Probe(p)>>)
                     ELSE After(<<Probe(p)>>, Loop(i + 1))
    IN  Loop(1)

resolve_as_context(info) ==
    IF ~world.options.resolve_to_context THEN Out(Resolving(info), <<>>)
    ELSE LET path == to_resolved_path(info)
         IN  IF is_dir(path)
             THEN Out(Success(InfoNew(path, NoReq)), <<Probe(path)>>)
             ELSE Out(Failed(info), <<Probe(path)>>)

\* The mutant forgets the enforce_extension option.
resolve_as_file_not_enforcing(info) ==
    IF is_directory(info.request) THEN Out(Resolving(info), <<>>)
    ELSE LET path == to_resolved_path(info)
         IN  IF is_file(path)
             THEN Out(Success(with_target(with_path(info, path), <<>>)), <<Probe(path)>>)
             ELSE After(<<Probe(path)>>, resolve_file_with_ext(path, info))

resolve_as_file(info) ==
    IF is_directory(info.request) THEN Out(Resolving(info), <<>>)
    ELSE LET path == to_resolved_path(info)
         IN  IF world.options.enforce_extension = "Enabled"
             THEN resolve_file_with_ext(path, info)
             ELSE IF is_file(path)
             THEN Out(Success(with_target(with_path(info, path), <<>>)), <<Probe(path)>>)
             ELSE After(<<Probe(path)>>, resolve_file_with_ext(path, info))

ThenResolveAsContext(out) ==
    IF IsResolving(out) THEN After(out.log, resolve_as_context(out.st.info)) ELSE out

ThenResolveAsFile(out) ==
    IF IsResolving(out) THEN After(out.log, resolve_as_file(out.st.info)) ELSE out

(***************************************************************************)
(* Collaborators outside resolve.rs and exports_field.rs                   *)
(***************************************************************************)

\* The plugins driven by other manifest fields honour the plugin contract and
\* nothing more is known of them here: world.plugins fixes, for each, which of
\* the four states it answers ("pass" is Resolving with the info it was given).
ExternalPlugin(name, info) ==
    LET log == <<Ev(name, info.path, info.request)>>
        outcome == world.plugins[name]
    IN  IF outcome = "pass" THEN Out(Resolving(info), log)
        ELSE IF outcome = "success"
        THEN Out(Success(with_target(with_path(info, to_resolved_path(info) \o <<<<name>>>>),
                                     <<>>)), log)
        ELSE IF outcome = "failed" THEN Out(Failed(info), log)
        ELSE Out(Error([kind |-> name, at |-> info.path, what |-> <<>>]), log)

MainFieldPlugin(pkg, info) == ExternalPlugin("MainField", info)
MainFilePlugin(info) == ExternalPlugin("MainFile", info)
ImportsFieldPlugin(pkg, info) == ExternalPlugin("ImportsField", info)
BrowserFieldPlugin(pkg, info) == ExternalPlugin("BrowserField", info)

\* ExportsField::field_process: the exports tree maps a lookup key to the list of
\* targets the configured conditions select; a key it does not declare is an error.
field_process(root, key) ==
    IF key \in DOMAIN root THEN Ok(root[key])
    ELSE Err([kind |-> "UnexpectedValue", at |-> <<>>, what |-> key])

\* ExportsField::check_target: a target stays inside the package directory.
check_target(target) ==
    /\ Len(target) >= 2 /\ target[1] = "." /\ target[2] = "/"
    /\ \A i \in 1..Len(SplitSlash(target)) : SplitSlash(target)[i] # <<".", ".">>

\* PathKind of a request target: relative or absolute, as against a module name.
IsPathTarget(target) ==
    \/ StartsWith(target, "/")
    \/ target = <<".">>
    \/ Len(target) >= 2 /\ target[1] = "." /\ target[2] \in {"/", "."}

(***************************************************************************)
(* Directory and node_modules resolution (resolve.rs, 73-225) and          *)
(* ExportsFieldPlugin::apply (exports_field.rs, 22-101)                    *)
(***************************************************************************)

RECURSIVE _resolve(_)
RECURSIVE resolve_as_modules(_)
RECURSIVE _resolve_as_modules(_, _, _)
RECURSIVE resolve_node_modules(_, _)
RECURSIVE ExportsFieldPlugin_apply(_, _)
RECURSIVE ExportsTryCandidates(_, _, _, _, _)
RECURSIVE ModulesAttempt(_, _)
RECURSIVE ModulesLoop(_, _)

\* get_module_name_from_request on a target whose slicing does not panic (the
\* requests of the resolver specifications are ASCII).
ModuleName(target) == get_module_name_from_request(target).v

\* The mutant never recognises a self-reference.
is_resolve_self_never(pkg_info_, request_module_name) == FALSE

is_resolve_self(pkg_info_, request_module_name) ==
    IF pkg_info_.name # None THEN request_module_name = pkg_info_.name.v ELSE FALSE

\* The mutant probes the main file whatever the main-field rule answered.
ThenMainFile_regardless(out) ==
    IF out.st.tag = "Error" THEN out ELSE After(out.log, MainFilePlugin(out.st.info))

\* resolve.rs 91
ThenMainFile(out) ==
    IF IsResolving(out) THEN After(out.log, MainFilePlugin(out.st.info)) ELSE out

resolve_as_dir(info) ==
    LET dir == to_resolved_path(info)
        pk == pkg_info(dir)
        info2 == with_target(with_path(info, dir), <<".">>)
    IN  IF ~is_dir(dir) THEN Out(Failed(info), <<Probe(dir)>>)
        ELSE IF pk.tag = "Err" THEN Out(Error(pk.err), <<Probe(dir)>>)
        ELSE ThenMainFile(After(<<Probe(dir)>>,
                                IF pk.v # None THEN MainFieldPlugin(pk.v.v, info2)
                                ELSE Out(Resolving(info2), <<>>)))

ThenResolveAsDir(out) ==
    IF IsResolving(out) THEN After(out.log, resolve_as_dir(out.st.info)) ELSE out

\* The top-level resolve, the target of every recursive call: requests for a
\* path go to the primitives, requests for a module to the node_modules walk.
_resolve(info) ==
    After(<<Ev("resolve", info.path, info.request)>>,
          IF IsPathTarget(info.request.target)
          THEN ThenResolveAsDir(ThenResolveAsFile(resolve_as_context(info)))
          ELSE resolve_as_modules(info))

\* exports_field.rs 30-48: the lookup key, or None when the rule does not apply.
ExportsLookupKey(pkg_info_, info) ==
    LET target == info.request.target
        request_path == get_path_from_request(target).v
        path == PathJoin(info.path, target)
    IN  IF request_path # None THEN Some(<<".">> \o request_path.v)
        ELSE IF exists(path) \/ (IF pkg_info_.name # None THEN target = pkg_info_.name.v
                                 ELSE FALSE)
        THEN Some(<<".">>)
        ELSE None

\* The mutant appends the query and the fragment to the key as it is.
ExportsRemainingTarget_bare_root(key, request) ==
    IF request.query # <<>> \/ request.fragment # <<>>
    THEN key \o request.query \o request.fragment
    ELSE key

\* exports_field.rs 49-58: the key with the query and the fragment put back.
ExportsRemainingTarget(key, request) ==
    IF request.query # <<>> \/ request.fragment # <<>>
    THEN (IF key = <<".">> THEN <<".", "/">> ELSE key) \o request.query \o request.fragment
    ELSE key

\* The mutant lets the caller's chain go on when no candidate finished.
ExportsNotExported_falls_through(pkg_info_, info, key) == Out(Resolving(info), <<>>)

\* The mutant lets the caller's chain go on when the key is not declared.
ExportsFieldMiss_falls_through(info, err, asked) == Out(Resolving(info), asked)

\* exports_field.rs 60-67: field_process failed.
ExportsFieldMiss(info, err, asked) == Out(Error(err), asked)

\* exports_field.rs 95-98: no candidate finished.
ExportsNotExported(pkg_info_, info, key) ==
    Out(Error([kind |-> "UnexpectedValue", at |-> pkg_info_.dir, what |-> key]), <<>>)

\* The mutant goes on to the next candidate after a Success.
ExportsNextCandidate_past_success(pkg_info_, info, key, list, i, state) ==
    IF state.st.tag = "Error" THEN state
    ELSE After(state.log, ExportsTryCandidates(pkg_info_, info, key, list, i + 1))

\* exports_field.rs 89-93: a finished candidate ends the loop.
ExportsNextCandidate(pkg_info_, info, key, list, i, state) ==
    IF is_finished(state.st) THEN state
    ELSE After(state.log, ExportsTryCandidates(pkg_info_, info, key, list, i + 1))

\* exports_field.rs 72-98: the candidates from the i-th on, in order.
ExportsTryCandidates(pkg_info_, info, key, list, i) ==
    IF i > Len(list) THEN ExportsNotExported(pkg_info_, info, key)
    ELSE LET info2 == with_request(InfoNew(pkg_info_.dir, NoReq), Parse(list[i]))
         IN  IF ~check_target(info2.request.target)
             THEN Out(Error([kind |-> "UnexpectedValue", at |-> pkg_info_.dir,
                             what |-> info2.request.target]), <<>>)
             ELSE ExportsNextCandidate(pkg_info_, info, key, list, i, _resolve(info2))

\* exports_field.rs 45: no subpath, no such path, not the package's name.
ExportsRuleDoesNotApply(info) == Out(Failed(info), <<>>)

ExportsFieldPlugin_apply(pkg_info_, info) ==
    LET root == pkg_info_.exports_field_tree
        key == ExportsLookupKey(pkg_info_, info)
        remaining_target == ExportsRemainingTarget(key.v, info.request)
        list == field_process(root.v, remaining_target)
        asked == <<Ev("field_process", pkg_info_.dir, Request(remaining_target, <<>>, <<>>))>>
    IN  IF root = None THEN Out(Resolving(info), <<>>)
        ELSE IF key = None THEN ExportsRuleDoesNotApply(info)
        ELSE IF list.tag = "Err" THEN ExportsFieldMiss(info, list.err, asked)
        ELSE After(asked, ExportsTryCandidates(pkg_info_, info, key.v, list.v, 1))

\* The mutant climbs two levels at a time where it can.
ThenFindUp_skipping_a_level(need_find_up, original_dir, out) ==
    IF ~IsResolving(out) THEN out
    ELSE IF ~need_find_up THEN out
    ELSE IF Len(original_dir) >= 2
    THEN After(out.log \o <<Ev("find_up", original_dir, out.st.info.request)>>,
               _resolve(with_path(out.st.info, PathParent(PathParent(original_dir).v).v)))
    ELSE out

\* resolve.rs 105-113: the find-up of a relative name.  The "find_up" effect
\* records the directory left and the request carried to its parent.
ThenFindUp(need_find_up, original_dir, out) ==
    IF ~IsResolving(out) THEN out
    ELSE IF ~need_find_up THEN out
    ELSE IF PathParent(original_dir) # None
    THEN After(out.log \o <<Ev("find_up", original_dir, out.st.info.request)>>,
               _resolve(with_path(out.st.info, PathParent(original_dir).v)))
    ELSE out

\* The mutant finds up for an absolute name too.
ModulesAttempt_always_finding_up(info, module) ==
    ThenFindUp(TRUE, info.path,
               _resolve_as_modules(info, info.path,
                                   IF is_absolute(module) THEN Components(module)
                                   ELSE PathJoin(info.path, module)))

\* resolve.rs 97-113: one module-storage name, with its find-up.
ModulesAttempt(info, module) ==
    ThenFindUp(~is_absolute(module), info.path,
               _resolve_as_modules(info, info.path,
                                   IF is_absolute(module) THEN Components(module)
                                   ELSE PathJoin(info.path, module)))

\* The mutant goes on to the next name after an Error.
ModulesNextName_past_errors(info, i, state) ==
    IF state.st.tag = "Success" THEN state
    ELSE After(state.log, ModulesLoop(info, i + 1))

\* resolve.rs 114-116: a finished name ends the loop.
ModulesNextName(info, i, state) ==
    IF is_finished(state.st) THEN state
    ELSE After(state.log, ModulesLoop(info, i + 1))

\* resolve.rs 96-118: the names from the i-th on, in order.
ModulesLoop(info, i) ==
    IF i > Len(world.options.modules) THEN Out(Failed(info), <<>>)
    ELSE ModulesNextName(info, i, ModulesAttempt(info, world.options.modules[i]))

resolve_as_modules(info) == ModulesLoop(info, 1)

\* resolve.rs 136-148: after the module-storage directory, the self-reference.
ThenSelfReference(pk, out) ==
    IF ~IsResolving(out) THEN out
    ELSE IF (IF pk.v # None
             THEN is_resolve_self(pk.v.v, ModuleName(out.st.info.request.target))
             ELSE FALSE)
    THEN After(out.log, ExportsFieldPlugin_apply(pk.v.v, out.st.info))
    ELSE out

\* The mutant goes on when the manifest does not load, as if there were none.
_resolve_as_modules_ignoring_load_error(info, original_dir, node_modules_path) ==
    LET pk == pkg_info(node_modules_path)
        log == <<Ev("modules", Canon(node_modules_path), info.request)>>
    IN  IF pk.tag = "Err"
        THEN IF is_dir(node_modules_path)
             THEN After(log, resolve_node_modules(info, node_modules_path))
             ELSE Out(Resolving(info), log)
        ELSE IF is_dir(node_modules_path)
        THEN ThenSelfReference(pk, After(log, resolve_node_modules(info, node_modules_path)))
        ELSE IF (IF pk.v # None THEN pk.v.v.dir = original_dir ELSE FALSE)
        THEN IF is_resolve_self(pk.v.v, ModuleName(info.request.target))
             THEN After(log, ExportsFieldPlugin_apply(pk.v.v, info))
             ELSE Out(Resolving(info), log)
        ELSE Out(Resolving(info), log)

_resolve_as_modules(info, original_dir, node_modules_path) ==
    LET pk == pkg_info(node_modules_path)
        log == <<Ev("modules", Canon(node_modules_path), info.request)>>
    IN  IF pk.tag = "Err" THEN Out(Error(pk.err), log)
        ELSE IF is_dir(node_modules_path)
        THEN ThenSelfReference(pk, After(log, resolve_node_modules(info, node_modules_path)))
        ELSE IF (IF pk.v # None THEN pk.v.v.dir = original_dir ELSE FALSE)
        THEN IF is_resolve_self(pk.v.v, ModuleName(info.request.target))
             THEN After(log, ExportsFieldPlugin_apply(pk.v.v, info))
             ELSE Out(Resolving(info), log)
        ELSE Out(Resolving(info), log)

\* resolve.rs 177-181: an unfinished file probe gives the original info back.
FinishedOrOriginal(info, state) ==
    IF is_finished(state.st) THEN state ELSE Out(Resolving(info), state.log)

\* resolve.rs 194
ThenImportsField(pkg, out) ==
    IF IsResolving(out) THEN After(out.log, ImportsFieldPlugin(pkg, out.st.info)) ELSE out

\* resolve.rs 195-202: the main field, for the path the target names.
ThenMainField(pkg, out) ==
    IF IsResolving(out)
    THEN After(out.log,
               MainFieldPlugin(pkg,
                   with_target(with_path(out.st.info,
                                         PathJoin(out.st.info.path, out.st.info.request.target)),
                               <<".">>)))
    ELSE out

\* resolve.rs 203
ThenBrowserField(pkg, out) ==
    IF IsResolving(out) THEN After(out.log, BrowserFieldPlugin(pkg, out.st.info)) ELSE out

\* The mutant gives the chain's state back as it is.
DowngradeFailed_keeps(state) == state

\* resolve.rs 211-214: a Failed chain is given back as Resolving.
DowngradeFailed(state) ==
    IF state.st.tag = "Failed" THEN Out(Resolving(state.st.info), state.log) ELSE state

\* resolve.rs 187-206: the manifest-driven steps for the package directory.
PackageChain(pk, original_dir, request_module_name, module_info) ==
    IF pk.v # None
    THEN ThenBrowserField(pk.v.v,
           ThenMainField(pk.v.v,
             ThenImportsField(pk.v.v,
               IF ~(pk.v.v.dir = original_dir)
                  \/ is_resolve_self(pk.v.v, request_module_name)
               THEN ExportsFieldPlugin_apply(pk.v.v, module_info)
               ELSE Out(Resolving(module_info), <<>>))))
    ELSE Out(Resolving(module_info), <<>>)

resolve_node_modules(info, node_modules_path) ==
    LET original_dir == info.path
        request_module_name == ModuleName(info.request.target)
        module_path == PathJoin(node_modules_path, request_module_name)
        module_info == InfoNew(node_modules_path, info.request)
        log == <<Ev("package", Canon(module_path), info.request)>>
        pk == pkg_info(module_path)
    IN  IF ~is_dir(module_path)
        THEN FinishedOrOriginal(info, After(log, resolve_as_file(module_info)))
        ELSE IF pk.tag = "Err" THEN Out(Error(pk.err), log)
        ELSE DowngradeFailed(
                 After(log,
                       ThenResolveAsDir(ThenResolveAsFile(ThenResolveAsContext(
                           PackageChain(pk, original_dir, request_module_name,
                                        module_info))))))

(***************************************************************************)
(* Specification SpecSplit: the three request-splitting functions applied  *)
(* to one request target drawn from all strings up to MaxTargetLen.        *)
(***************************************************************************)

Alphabet == {"@", "/", "a", "E"}

RECURSIVE StringsOfLen(_)
StringsOfLen(n) ==
    IF n = 0 THEN {<<>>}
    ELSE {<<c>> \o s : c \in Alphabet, s \in StringsOfLen(n - 1)}

Targets == UNION {StringsOfLen(n) : n \in 0..MaxTargetLen}

NoWorld == "NoWorld"

SplitOps == {"split", "name", "path"}

InitSplit ==
    /\ world = NoWorld
    /\ arg \in [target : Targets]
    /\ ret = [o \in SplitOps |-> Unset]

CallSplit ==
    /\ "split" \in DOMAIN ret /\ ret["split"] = Unset
    /\ ret' = [ret EXCEPT !["split"] = Ret(split_slash_from_request(arg.target))]
    /\ UNCHANGED <<world, arg>>

CallModuleName ==
    /\ "name" \in DOMAIN ret /\ ret["name"] = Unset
    /\ ret' = [ret EXCEPT !["name"] = get_module_name_from_request(arg.target)]
    /\ UNCHANGED <<world, arg>>

CallPath ==
    /\ "path" \in DOMAIN ret /\ ret["path"] = Unset
    /\ ret' = [ret EXCEPT !["path"] = get_path_from_request(arg.target)]
    /\ UNCHANGED <<world, arg>>

NextSplit == CallSplit \/ CallModuleName \/ CallPath

SpecSplit == InitSplit /\ [][NextSplit]_vars

(***************************************************************************)
(* Specification SpecFile: resolve_as_file called once, on a filesystem    *)
(* and a configuration drawn from a bounded family.                        *)
(***************************************************************************)

\* The largest number of configured extensions.
MaxExts == 2

ExtLetters == <<"j", "k", "l", "m">>
ExtUniverse == {<<".", ExtLetters[i]>> : i \in 1..MaxExts}

\* The lists of distinct extensions of up to MaxExts entries.
RECURSIVE ExtListsOfLen(_)
ExtListsOfLen(n) ==
    IF n = 0 THEN {<<>>}
    ELSE {l \o <<e>> : l \in ExtListsOfLen(n - 1), e \in ExtUniverse}

ExtLists ==
    {l \in UNION {ExtListsOfLen(n) : n \in 0..MaxExts} :
        \A i, j \in 1..Len(l) : i # j => l[i] # l[j]}

Options(extensions, modules, enforce, context) ==
    [extensions |-> extensions, modules |-> modules,
     enforce_extension |-> enforce, resolve_to_context |-> context]

World(files, dirs, manifests, options) ==
    [files |-> files, dirs |-> dirs, manifests |-> manifests, options |-> options]

NoManifests == [p \in {} |-> 0]

dD == <<<<"d">>>>
dF == <<<<"d">>, <<"f">>>>

\* What d/f is: nothing, a file, a directory, a directory holding a file
\* whose whole name is an extension.
FileWorldFiles ==
    LET suffixed == SUBSET {append_ext_for_path(dF, e) : e \in ExtUniverse}
    IN  UNION {{[files |-> S, dirs |-> {<<>>, dD}],
                [files |-> S \cup {dF}, dirs |-> {<<>>, dD}],
                [files |-> S, dirs |-> {<<>>, dD, dF}]}
               \cup {[files |-> S \cup {dF \o <<e>>}, dirs |-> {<<>>, dD, dF}] :
                       e \in ExtUniverse}
               : S \in suffixed}

FileWorlds ==
    {World(f.files, f.dirs, NoManifests, Options(exts, <<>>, enforce, FALSE)) :
        f \in FileWorldFiles, exts \in ExtLists, enforce \in {"Enabled", "Disabled"}}

\* Requests for d/f: plain, relative, with a trailing separator, and empty.
FileTargets == {<<"f">>, <<".", "/", "f">>, <<"f", "/">>, <<>>}

InitFile ==
    /\ world \in FileWorlds
    /\ arg \in {InfoNew(dD, Request(t, <<>>, <<>>)) : t \in FileTargets}
    /\ ret = [o \in {"resolve_as_file"} |-> Unset]

CallResolveAsFile ==
    /\ "resolve_as_file" \in DOMAIN ret /\ ret["resolve_as_file"] = Unset
    /\ ret' = [ret EXCEPT !["resolve_as_file"] = resolve_as_file(arg)]
    /\ UNCHANGED <<world, arg>>

NextFile == CallResolveAsFile

SpecFile == InitFile /\ [][NextFile]_vars


(***************************************************************************)
(* Specification Spec: one call of ExportsFieldPlugin::apply,              *)
(* resolve_node_modules or resolve_as_modules, on a filesystem, a          *)
(* configuration and a request drawn from bounded families.                *)
(***************************************************************************)

Str_p == <<"p">>
Str_q == <<"q">>
Str_pu == <<"p", "/", "u">>
Str_px == <<"p", "/", "x">>
Ext_j == <<".", "j">>

\* Module-storage names: two relative ones and an absolute one.
Mod_n == <<"n">>
Mod_k == <<"k">>
Mod_m == <<"/", "m">>

dDA == <<<<"d">>, <<"a">>>>
dDAB == <<<<"d">>, <<"a">>, <<"b">>>>
dM == <<<<"m">>>>

Key_root == <<".">>
Key_u == <<".", "/", "u">>

\* package.json values
Manifest(name, exports) == [corrupt |-> FALSE, name |-> name, exports |-> exports]

\* The exports map of an installed package p and of the package at d.
InstalledTree ==
    (Key_root :> <<<<".", "/", "i", ".", "j">>>>)
    @@ (Key_u :> <<<<".", "/", "l", "/", "u", ".", "j">>>>)
SelfTree ==
    (Key_root :> <<<<".", "/", "i", ".", "j">>>>)
    @@ (Key_u :> <<<<".", "/", "s", "/", "u", ".", "j">>>>)

AllPass == [n \in {"MainField", "MainFile", "ImportsField", "BrowserField"} |-> "pass"]

\* Every plugin passes, or exactly one of them answers otherwise.
PluginChoices ==
    {AllPass} \cup {[AllPass EXCEPT ![n] = o] : n \in DOMAIN AllPass,
                                                o \in {"success", "failed", "error"}}

\* A piece of filesystem: files, directories and manifests, merged by Plus.
Piece(files, dirs, manifests) == [files |-> files, dirs |-> dirs, manifests |-> manifests]
NoPiece == Piece({}, {}, NoManifests)
Plus(x, y) == Piece(x.files \cup y.files, x.dirs \cup y.dirs, x.manifests @@ y.manifests)

\* What a module-storage directory L holds: nothing at all ("absent"), no
\* package p ("empty"), p without a package.json ("plain"), p with a package.json
\* that has no exports ("named"), p with an exports map ("exports").
LocKinds == {"absent", "empty", "plain", "named", "exports"}

Location(L, kind) ==
    LET P == L \o <<Str_p>>
        loose == Piece({P \o <<<<"u", ".", "j">>>>, P \o <<<<"x">>>>}, {L, P}, NoManifests)
    IN  IF kind = "absent" THEN NoPiece
        ELSE IF kind = "empty" THEN Piece({}, {L}, NoManifests)
        ELSE IF kind = "plain" THEN loose
        ELSE IF kind = "named"
        THEN Plus(loose, Piece({}, {}, P :> Manifest(Some(Str_p), None)))
        ELSE Piece({P \o <<<<"l">>, <<"u", ".", "j">>>>, P \o <<<<"i", ".", "j">>>>,
                    P \o <<<<"x">>>>, P \o <<<<"x", ".", "j">>>>},
                   {L, P, P \o <<<<"l">>>>},
                   P :> Manifest(Some(Str_p), Some(InstalledTree)))

\* The directories d, d/a, d/a/b.  d is no package ("none"), or the package
\* named p or q, with an exports map.
SelfKinds == {"none", "p", "q"}

Tree(self) ==
    Plus(Piece({}, {<<>>, dD, dDA, dDAB}, NoManifests),
         IF self # "none"
         THEN Piece({dD \o <<<<"s">>, <<"u", ".", "j">>>>, dD \o <<<<"i", ".", "j">>>>},
                    {dD \o <<<<"s">>>>},
                    dD :> Manifest(Some(<<self>>), Some(SelfTree)))
         ELSE NoPiece)

ModuleLists == {<<Mod_n>>, <<Mod_k, Mod_n>>, <<Mod_n, Mod_m>>, <<Mod_m, Mod_n>>}

MkWorld(piece, modules, plugins) ==
    [files |-> piece.files, dirs |-> piece.dirs, manifests |-> piece.manifests,
     options |-> Options(<<Ext_j>>, modules, "Disabled", FALSE),
     plugins |-> plugins]

\* Filesystems for the walk from d/a/b: the three module-storage directories on
\* the way up hold any of the five things; /m holds p when it is configured.
WalkWorlds ==
    {MkWorld(Plus(Plus(Tree(self), Location(dM, km)),
                  Plus(Location(dDAB \o <<Mod_n>>, k3),
                       Plus(Location(dDA \o <<Mod_n>>, k2), Location(dD \o <<Mod_n>>, k1)))),
             modules, AllPass) :
        self \in {"none", "p"}, k1 \in LocKinds, k2 \in LocKinds, k3 \in LocKinds,
        km \in {"plain", "exports"}, modules \in ModuleLists}

ModuleRequests == {Request(t, <<>>, <<>>) : t \in {Str_p, Str_pu, Str_px}}

Call(op, info, dir) == [op |-> op, info |-> info, dir |-> dir]

\* The walk from d/a/b, and from d where nothing lies below d.
WalkScenarios ==
    {[world |-> w, arg |-> Call("resolve_as_modules", InfoNew(dDAB, r), <<>>)] :
        w \in WalkWorlds, r \in ModuleRequests}
    \cup
    {[world |-> w, arg |-> Call("resolve_as_modules", InfoNew(dD, r), <<>>)] :
        w \in {x \in WalkWorlds : ~(dDAB \o <<Mod_n>> \in x.dirs)
                                  /\ ~(dDA \o <<Mod_n>> \in x.dirs)},
        r \in ModuleRequests}

\* The walk with one plugin answering otherwise than Resolving.
PluginWalkWorlds ==
    {MkWorld(Plus(Plus(Tree(self), Location(dM, "plain")),
                  Plus(Location(dDAB \o <<Mod_n>>, k3), Location(dD \o <<Mod_n>>, k1))),
             modules, plugins) :
        self \in {"none", "p"}, k1 \in {"absent", "plain"},
        k3 \in {"plain", "named", "exports"},
        modules \in {<<Mod_n>>, <<Mod_n, Mod_m>>}, plugins \in PluginChoices \ {AllPass}}

PluginWalkScenarios ==
    {[world |-> w, arg |-> Call("resolve_as_modules", InfoNew(dDAB, r), <<>>)] :
        w \in PluginWalkWorlds, r \in ModuleRequests}

\* resolve_node_modules as _resolve_as_modules calls it: for an existing
\* module-storage directory under the base directory.
NodeModulesWorlds ==
    {MkWorld(Plus(Tree(self), Location(base \o <<Mod_n>>, k)), <<Mod_n>>, plugins) :
        self \in SelfKinds, base \in {dD, dDAB}, k \in LocKinds \ {"absent"},
        plugins \in PluginChoices}

NodeModulesScenarios ==
    {[world |-> w, arg |-> Call("resolve_node_modules", InfoNew(base, r), base \o <<Mod_n>>)] :
        w \in NodeModulesWorlds, base \in {dD, dDAB}, r \in ModuleRequests}

\* ExportsFieldPlugin::apply for the manifest of the package d/n/p, with the
\* module-storage directory d/n as the base directory.
dN == dD \o <<Mod_n>>
dNP == dN \o <<Str_p>>

Tgt_iu == <<".", "/", "i", ".", "j">>
Tgt_lu == <<".", "/", "l", "/", "u", ".", "j">>
Tgt_v == <<".", "/", "v", ".", "j">>
Tgt_out == <<".", ".", "/", "w">>

ExportsTrees ==
    {None,
     Some((Key_root :> <<Tgt_iu>>) @@ (Key_u :> <<Tgt_lu, Tgt_v>>)),
     Some((Key_root :> <<>>) @@ (Key_u :> <<>>)),
     Some(Key_u :> <<Tgt_out>>),
     Some(Key_u :> <<Tgt_v, Tgt_out>>),
     Some(Key_u :> <<Tgt_out, Tgt_v>>),
     Some(Key_u :> <<Tgt_lu>>)}

ExportsWorlds ==
    {MkWorld(Plus(Plus(Tree("none"),
                       Piece(files, {dN, dNP, dNP \o <<<<"l">>>>}, dNP :> Manifest(name, tree))),
                  Piece(other, {}, NoManifests)),
             <<Mod_n>>, AllPass) :
        files \in SUBSET {dNP \o <<<<"l">>, <<"u", ".", "j">>>>, dNP \o <<<<"v", ".", "j">>>>,
                          dNP \o <<<<"i", ".", "j">>>>},
        name \in {None, Some(Str_p)}, tree \in ExportsTrees,
        other \in {{}, {dN \o <<Str_q>>}}}

ExportsTargets ==
    {Str_p, Str_pu, Str_px, Str_q, <<"q", "/", "u">>,
     <<"@", "s", "/", "p">>, <<"@", "s", "/", "p", "/", "u">>}

\* The query and the fragment of a request: none, or one character after the mark.
Queries == {<<>>, <<"?", "q">>}
Fragments == {<<>>, <<"#", "f">>}

ExportsScenarios ==
    {[world |-> w, arg |-> Call("apply", InfoNew(dN, Request(t, q, f)), dNP)] :
        w \in ExportsWorlds, t \in ExportsTargets, q \in Queries, f \in Fragments}

\* A package.json that cannot be read or parsed.
CorruptManifest == [corrupt |-> TRUE, name |-> None, exports |-> None]

\* resolve_as_dir for d/f, which is nothing, a directory, a directory with a
\* package.json, or a directory with a package.json that does not load; d is
\* a package or not.
DirKinds == {"absent", "bare", "manifest", "corrupt"}

DirPiece(kind) ==
    IF kind = "absent" THEN NoPiece
    ELSE IF kind = "bare" THEN Piece({}, {dF}, NoManifests)
    ELSE IF kind = "manifest" THEN Piece({}, {dF}, dF :> Manifest(Some(<<"f">>), None))
    ELSE Piece({}, {dF}, dF :> CorruptManifest)

DirWorlds ==
    {MkWorld(Plus(Tree(self), DirPiece(kind)), <<Mod_n>>, plugins) :
        self \in {"none", "p"}, kind \in DirKinds, plugins \in PluginChoices}

DirScenarios ==
    {[world |-> w, arg |-> Call("resolve_as_dir", InfoNew(dD, Request(t, <<>>, <<>>)), <<>>)] :
        w \in DirWorlds, t \in {<<"f">>, <<".", "/", "f">>, <<"f", "/">>}}

\* The package p installed in a module-storage directory with a package.json
\* that does not load.
CorruptPackage(L) == Piece({}, {L, L \o <<Str_p>>}, (L \o <<Str_p>>) :> CorruptManifest)

\* Where a package.json does not load: at d, so for every path below d, or in
\* the package p of the module-storage directory of d/a/b, d/a or d.
CorruptPieces ==
    {Plus(Piece({}, {}, dD :> CorruptManifest), Location(dDAB \o <<Mod_n>>, k)) :
        k \in {"absent", "empty", "plain"}}
    \cup {CorruptPackage(base \o <<Mod_n>>) : base \in {dDAB, dDA, dD}}

CorruptWorlds ==
    {MkWorld(Plus(Plus(Tree("none"), Location(dM, km)), piece), modules, AllPass) :
        piece \in CorruptPieces, km \in {"empty", "plain"}, modules \in ModuleLists}

CorruptScenarios ==
    {[world |-> w, arg |-> Call("resolve_as_modules", InfoNew(dDAB, r), <<>>)] :
        w \in CorruptWorlds, r \in ModuleRequests}
    \cup
    {[world |-> MkWorld(Plus(Tree(self), CorruptPackage(base \o <<Mod_n>>)), <<Mod_n>>, plugins),
      arg |-> Call("resolve_node_modules", InfoNew(base, r), base \o <<Mod_n>>)] :
        self \in {"none", "p"}, base \in {dD, dDAB}, plugins \in PluginChoices,
        r \in ModuleRequests}

\* The walk with the absolute name /m configured, alone, first or last, where
\* /m is missing, holds no package p, or holds p with a manifest without exports.
AbsoluteWorlds ==
    {MkWorld(Plus(Plus(Tree(self), Location(dM, km)),
                  Plus(Location(dDAB \o <<Mod_n>>, k3), Location(dD \o <<Mod_n>>, k1))),
             modules, AllPass) :
        self \in {"none", "p"}, km \in {"absent", "empty", "named"},
        k3 \in {"absent", "empty", "plain"}, k1 \in {"absent", "plain", "exports"},
        modules \in {<<Mod_m>>, <<Mod_m, Mod_n>>, <<Mod_n, Mod_m>>}}

AbsoluteScenarios ==
    {[world |-> w, arg |-> Call("resolve_as_modules", InfoNew(dDAB, r), <<>>)] :
        w \in AbsoluteWorlds, r \in ModuleRequests}

Scenarios ==
    WalkScenarios \cup PluginWalkScenarios \cup NodeModulesScenarios \cup ExportsScenarios
    \cup DirScenarios \cup CorruptScenarios \cup AbsoluteScenarios

Init ==
    /\ \E s \in Scenarios : world = s.world /\ arg = s.arg
    /\ ret = [op |-> "none", out |-> Unset]

\* ExportsFieldPlugin::new(pkg_info).apply(resolver, info, context), with the
\* manifest of the directory arg.dir.
CallExportsApply ==
    /\ ret.op = "none" /\ arg.op = "apply"
    /\ ret' = [op |-> arg.op,
               out |-> ExportsFieldPlugin_apply(pkg_info(arg.dir).v.v, arg.info)]
    /\ UNCHANGED <<world, arg>>

CallResolveNodeModules ==
    /\ ret.op = "none" /\ arg.op = "resolve_node_modules"
    /\ ret' = [op |-> arg.op, out |-> resolve_node_modules(arg.info, arg.dir)]
    /\ UNCHANGED <<world, arg>>

CallResolveAsModules ==
    /\ ret.op = "none" /\ arg.op = "resolve_as_modules"
    /\ ret' = [op |-> arg.op, out |-> resolve_as_modules(arg.info)]
    /\ UNCHANGED <<world, arg>>

CallResolveAsDir ==
    /\ ret.op = "none" /\ arg.op = "resolve_as_dir"
    /\ ret' = [op |-> arg.op, out |-> resolve_as_dir(arg.info)]
    /\ UNCHANGED <<world, arg>>

Next ==
    \/ CallExportsApply
    \/ CallResolveNodeModules
    \/ CallResolveAsModules
    \/ CallResolveAsDir

Spec == Init /\ [][Next]_vars

(***************************************************************************)
(* Claims about request splitting, checked under SpecSplit                 *)
(***************************************************************************)

\* The 1-based positions of '/' in a string.
SlashPositions(s) == {i \in 1..Len(s) : s[i] = "/"}

\* The n-th smallest element of a finite set of numbers.
NthSmallest(S, n) == CHOOSE x \in S : Cardinality({y \in S : y < x}) = n - 1

\* Whether, and where, the string has its module-name/subpath boundary: the
\* second '/' of a string starting with '@', the first '/' of any other.
BoundaryRank(s) == IF StartsWith(s, "@") THEN 2 ELSE 1
HasBoundary(s) == Cardinality(SlashPositions(s)) >= BoundaryRank(s)
BoundaryPos(s) == NthSmallest(SlashPositions(s), BoundaryRank(s))

\* C6: for every request target, with a boundary the module name is exactly the
\* text before the boundary '/' and the subpath the text from that '/' on; with
\* no boundary the module name is the whole target and the subpath is None.
C6_SplitAtBoundary ==
    LET t == arg.target
    IN  /\ ret["name"] # Unset =>
              ret["name"] = Ret(IF HasBoundary(t) THEN SubSeq(t, 1, BoundaryPos(t) - 1) ELSE t)
        /\ ret["path"] # Unset =>
              ret["path"] = Ret(IF HasBoundary(t)
                                THEN Some(SubSeq(t, BoundaryPos(t), Len(t)))
                                ELSE None)

\* C7: when get_path_from_request is Some(p), the module name followed by p is the
\* request target; get_path_from_request is None exactly when
\* split_slash_from_request is None, and then the module name is the target.
C7_SplitRoundTrip ==
    /\ (ret["path"].tag = "Ret" /\ ret["path"].v # None /\ ret["name"] # Unset) =>
           /\ ret["name"].tag = "Ret"
           /\ ret["name"].v \o ret["path"].v.v = arg.target
    /\ (ret["path"] # Unset /\ ret["split"] # Unset) =>
           (ret["path"] = Ret(None) <=> ret["split"] = Ret(None))
    /\ (ret["path"] = Ret(None) /\ ret["name"] # Unset) => ret["name"] = Ret(arg.target)

\* A target with a two-byte character before its boundary, split by all three.
C7_Witness ==
    /\ HasBoundary(arg.target)
    /\ \E i \in 1..Len(arg.target) : arg.target[i] = "E" /\ i < BoundaryPos(arg.target)
    /\ ret["split"].tag = "Ret" /\ ret["name"].tag = "Ret"
    /\ ret["path"].tag = "Ret" /\ ret["path"].v # None

(***************************************************************************)
(* Claims about resolve_as_file, checked under SpecFile                    *)
(***************************************************************************)

\* The indexes of the configured extensions whose suffixed path is a file.
ExtHits(path) ==
    {i \in 1..Len(world.options.extensions) :
        is_file(append_ext_for_path(path, world.options.extensions[i]))}

\* Success with the path suffixed by the first configured extension that hits,
\* Resolving with the info unchanged when none does.
FirstExtResult(info, path) ==
    IF ExtHits(path) = {} THEN Resolving(info)
    ELSE LET i == CHOOSE k \in ExtHits(path) : \A j \in ExtHits(path) : k <= j
         IN  Success(with_target(
                 with_path(info, append_ext_for_path(path, world.options.extensions[i])),
                 <<>>))

\* C8 as stated: with enforcement off and the literal path not a file, the result
\* is Success with path + e for the first configured extension e for which
\* path + e is a file, and Resolving with the info unchanged if there is none.
C8_AsStated ==
    (/\ ret["resolve_as_file"] # Unset
     /\ world.options.enforce_extension = "Disabled"
     /\ ~is_file(to_resolved_path(arg)))
    => ret["resolve_as_file"].st = FirstExtResult(arg, to_resolved_path(arg))

\* C8, amended: the same, for a request that does not denote a directory (a
\* request that does is answered Resolving before any probe).
C8_ExtensionOrder ==
    (/\ ret["resolve_as_file"] # Unset
     /\ world.options.enforce_extension = "Disabled"
     /\ ~is_directory(arg.request)
     /\ ~is_file(to_resolved_path(arg)))
    => ret["resolve_as_file"].st = FirstExtResult(arg, to_resolved_path(arg))

\* Two configured extensions both hit and the first one was returned.
C8_Witness ==
    /\ ret["resolve_as_file"] # Unset
    /\ world.options.enforce_extension = "Disabled"
    /\ ~is_directory(arg.request)
    /\ ~is_file(to_resolved_path(arg))
    /\ Cardinality(ExtHits(to_resolved_path(arg))) >= 2
    /\ ret["resolve_as_file"].st.tag = "Success"

Returned(op) == ret.op = op

\* The manifest ExportsFieldPlugin::apply was constructed with, the lookup key
\* of the request and the candidates the exports map gives for it.
ApplyManifest == pkg_info(arg.dir).v.v
ApplyKey == ExportsLookupKey(ApplyManifest, arg.info)
ApplyCandidates ==
    field_process(ApplyManifest.exports_field_tree.v,
                  ExportsRemainingTarget(ApplyKey.v, arg.info.request))

\* A candidate that passes check_target and whose recursive resolve does not finish.
CandidateUnfinished(dir, candidate) ==
    /\ check_target(Parse(candidate).target)
    /\ ~is_finished(_resolve(with_request(InfoNew(dir, NoReq), Parse(candidate))).st)

NotExported(dir, key) == Error([kind |-> "UnexpectedValue", at |-> dir, what |-> key])

\* The literal path of the request under a module-storage directory, bare and
\* with each configured extension: what the caller's file and directory steps probe.
LiteralPaths(node_modules_path, request) ==
    LET lit == PathJoin(node_modules_path, request.target)
    IN  {lit} \cup {append_ext_for_path(lit, world.options.extensions[i]) :
                      i \in 1..Len(world.options.extensions)}

\* An event of the steps that follow the exports rule in resolve_node_modules.
IsLaterStep(e) ==
    \/ e.ev \in {"ImportsField", "MainField", "BrowserField", "MainFile"}
    \/ e.ev = "probe" /\ e.path \in LiteralPaths(arg.dir, arg.info.request)

\* C1: with an exports tree and a lookup key, apply returns Success or Error,
\* never Resolving or Failed; when field_process gives candidates and no
\* candidate's resolve finishes, the result is the 'not exported' Error; and in
\* resolve_node_modules, once the exports map was consulted, the result is
\* Success or Error and no imports, main-field, browser-field, main-file or
\* literal file/directory step has run.
C1_ExportsIsFinal ==
    /\ (/\ Returned("apply")
        /\ ApplyManifest.exports_field_tree # None
        /\ ApplyKey # None)
       => /\ ret.out.st.tag \in {"Success", "Error"}
          /\ (/\ ApplyCandidates.tag = "Ok"
              /\ \A i \in 1..Len(ApplyCandidates.v) :
                    CandidateUnfinished(ApplyManifest.dir, ApplyCandidates.v[i]))
             => ret.out.st = NotExported(ApplyManifest.dir, ApplyKey.v)
    /\ (/\ Returned("resolve_node_modules")
        /\ \E i \in 1..Len(ret.out.log) : ret.out.log[i].ev = "field_process")
       => /\ ret.out.st.tag \in {"Success", "Error"}
          /\ \A j \in 1..Len(ret.out.log) : ~IsLaterStep(ret.out.log[j])

\* apply has returned for a key with two candidates, both inside the package,
\* neither of which exists.
C1_Witness ==
    /\ Returned("apply")
    /\ ApplyManifest.exports_field_tree # None
    /\ ApplyKey # None
    /\ ApplyCandidates.tag = "Ok"
    /\ Len(ApplyCandidates.v) = 2
    /\ \A i \in 1..Len(ApplyCandidates.v) :
          CandidateUnfinished(ApplyManifest.dir, ApplyCandidates.v[i])
    /\ ret.out.st.tag = "Error"

\* The exports map of the manifest the event names does not declare the key asked.
IsExportsMiss(e) ==
    /\ e.ev = "field_process"
    /\ ~(e.req.target \in DOMAIN world.manifests[e.path].exports.v)

\* resolve_node_modules finds, under the module-storage directory, a package
\* directory whose manifest is not the starting directory's and has an exports
\* tree that does not declare the subpath of the request.
FindsClosedPackage(info, node_modules_path) ==
    LET module_path == PathJoin(node_modules_path, ModuleName(info.request.target))
        pk == pkg_info(module_path)
        subpath == get_path_from_request(info.request.target).v
    IN  /\ is_dir(node_modules_path)
        /\ is_dir(module_path)
        /\ pk.tag = "Ok"
        /\ pk.v # None
        /\ pk.v.v.dir # info.path
        /\ pk.v.v.exports_field_tree # None
        /\ subpath # None
        /\ ~((<<".">> \o subpath.v) \in DOMAIN pk.v.v.exports_field_tree.v)

\* The first module-storage directory resolve_as_modules examines.
FirstLocation ==
    IF is_absolute(world.options.modules[1]) THEN Components(world.options.modules[1])
    ELSE PathJoin(arg.info.path, world.options.modules[1])

EventsOfKind(log, kind) == {i \in 1..Len(log) : log[i].ev = kind}

\* C2: a key the exports map does not declare ends the whole resolution with
\* that Error: nothing runs after the lookup, in resolve_node_modules and in
\* resolve_as_modules.  When the package is found under the module-storage
\* directory given to resolve_node_modules, or under the first one
\* resolve_as_modules examines, the result is the Error and nothing was probed
\* on disk, no second module-storage directory was examined and no ancestor
\* was resolved.
C2_ExportsClosedWorld ==
    /\ (Returned("resolve_node_modules") \/ Returned("resolve_as_modules"))
       => \A i \in 1..Len(ret.out.log) :
             IsExportsMiss(ret.out.log[i])
             => /\ i = Len(ret.out.log)
                /\ ret.out.st = NotExported(<<>>, ret.out.log[i].req.target)
    /\ (Returned("resolve_node_modules") /\ FindsClosedPackage(arg.info, arg.dir))
       => /\ ret.out.st.tag = "Error"
          /\ EventsOfKind(ret.out.log, "probe") = {}
    /\ (Returned("resolve_as_modules") /\ FindsClosedPackage(arg.info, FirstLocation))
       => /\ ret.out.st.tag = "Error"
          /\ EventsOfKind(ret.out.log, "probe") = {}
          /\ EventsOfKind(ret.out.log, "resolve") = {}
          /\ Cardinality(EventsOfKind(ret.out.log, "modules")) = 1

\* resolve_as_modules has returned: the package with the exports map is in the
\* first module-storage directory, the undeclared subpath is a file of the
\* package, a second module-storage name is configured and ancestors exist.
C2_Witness ==
    /\ Returned("resolve_as_modules")
    /\ FindsClosedPackage(arg.info, FirstLocation)
    /\ is_file(PathJoin(FirstLocation, arg.info.request.target))
    /\ Len(world.options.modules) = 2
    /\ arg.info.path = dDAB
    /\ ret.out.st.tag = "Error"

\* C3: with an exports tree, a request without a subpath whose target is neither
\* an existing path under the base directory nor the package's name makes apply
\* return Resolving with the info it was given.
C3_RuleDoesNotApply ==
    (/\ Returned("apply")
     /\ ApplyManifest.exports_field_tree # None
     /\ ApplyKey = None)
    => ret.out.st = Resolving(arg.info)

\* No module-storage directory the walk examined holds a directory for the
\* requested module.
NothingInstalled(log) ==
    \A i \in 1..Len(log) : log[i].ev = "package" => ~is_dir(log[i].path)

\* The lookup key of a request target: "." followed by the subpath, or ".".
KeyOf(target) ==
    IF get_path_from_request(target).v # None
    THEN <<".">> \o get_path_from_request(target).v.v
    ELSE <<".">>

\* The directory D is a package with an exports map, the request names that
\* package and a subpath its exports map declares.
IsSelfReference(D, info) ==
    /\ D \in DOMAIN world.manifests
    /\ world.manifests[D].name = Some(ModuleName(info.request.target))
    /\ world.manifests[D].exports # None
    /\ KeyOf(info.request.target) \in DOMAIN world.manifests[D].exports.v

\* The exports map of D's manifest was consulted for the key of the request,
\* and the result is Success with the file under D the map assigns to the key.
RoutedThroughExports(D) ==
    /\ \E i \in 1..Len(ret.out.log) :
          /\ ret.out.log[i].ev = "field_process"
          /\ ret.out.log[i].path = D
          /\ ret.out.log[i].req.target = KeyOf(arg.info.request.target)
    /\ ret.out.st.tag = "Success"
    /\ ret.out.st.info.path =
           PathJoin(D, world.manifests[D].exports.v[KeyOf(arg.info.request.target)][1])

HasRelativeName ==
    \E i \in 1..Len(world.options.modules) : ~is_absolute(world.options.modules[i])

FirstExamined(log, location) ==
    LET hits == {i \in EventsOfKind(log, "modules") : log[i].path = location}
    IN  IF hits = {} THEN 0 ELSE CHOOSE i \in hits : \A j \in hits : i <= j

\* The module is installed, with the exports map, in the module-storage directory.
InstalledAt(location) ==
    /\ (location \o <<Str_p>>) \in DOMAIN world.manifests
    /\ world.manifests[location \o <<Str_p>>].exports # None

\* C5: for every relative module-storage name X, resolve_as_modules started at
\* d/a/b examines d/a/b/X before d/a/X and d/a/X before d/X; the module
\* installed at d/a/X and at d/X, and not at d/a/b/X, resolves to the file of
\* the package under d/a/X.
C5_FindUpOrder ==
    (Returned("resolve_as_modules") /\ arg.info.path = dDAB)
    => \A x \in 1..Len(world.options.modules) :
          LET X == world.options.modules[x]
              near == FirstExamined(ret.out.log, dDAB \o <<X>>)
              mid == FirstExamined(ret.out.log, dDA \o <<X>>)
              far == FirstExamined(ret.out.log, dD \o <<X>>)
          IN  ~is_absolute(X) =>
              /\ mid # 0 => (near # 0 /\ near < mid)
              /\ far # 0 => (mid # 0 /\ mid < far)
              /\ (/\ arg.info.request.target = Str_pu
                  /\ InstalledAt(dDA \o <<X>>)
                  /\ InstalledAt(dD \o <<X>>)
                  /\ ~is_dir(dDAB \o <<X>>))
                 => /\ ret.out.st.tag = "Success"
                    /\ ret.out.st.info.path = dDA \o <<X, Str_p, <<"l">>, <<"u", ".", "j">>>>

\* The indexes of the configured names whose attempt, find-up included, finishes.
FinishedNames(info) ==
    {i \in 1..Len(world.options.modules) :
        is_finished(ModulesAttempt(info, world.options.modules[i]).st)}

\* The logs of the attempts for the names 1..n, one after the other.
RECURSIVE AttemptLogs(_, _)
AttemptLogs(info, n) ==
    IF n = 0 THEN <<>>
    ELSE AttemptLogs(info, n - 1) \o ModulesAttempt(info, world.options.modules[n]).log

\* C10: resolve_as_modules returns the state of the first configured name whose
\* attempt is Success or Error, having run the attempts up to that name and no
\* later one; when no attempt is Success or Error it returns Failed with the
\* info it was given, having run every attempt.
C10_FirstFinishedName ==
    Returned("resolve_as_modules") =>
        IF FinishedNames(arg.info) = {}
        THEN /\ ret.out.st = Failed(arg.info)
             /\ ret.out.log = AttemptLogs(arg.info, Len(world.options.modules))
        ELSE LET first == CHOOSE i \in FinishedNames(arg.info) :
                              \A j \in FinishedNames(arg.info) : i <= j
             IN  /\ ret.out.st = ModulesAttempt(arg.info, world.options.modules[first]).st
                 /\ ret.out.log = AttemptLogs(arg.info, first)

\* The first of two configured names ended in an Error and the second, tried
\* alone, would have succeeded.
C10_Witness ==
    /\ Returned("resolve_as_modules")
    /\ Len(world.options.modules) = 2
    /\ ModulesAttempt(arg.info, world.options.modules[1]).st.tag = "Error"
    /\ ModulesAttempt(arg.info, world.options.modules[2]).st.tag = "Success"
    /\ ret.out.st.tag = "Error"

\* C11: every find-up made during a call of resolve_as_modules carries the
\* request (target, query, fragment) the call was given, also after
\* resolve_node_modules entered a package directory.
C11_FindUpKeepsRequest ==
    Returned("resolve_as_modules")
    => \A i \in EventsOfKind(ret.out.log, "find_up") :
          ret.out.log[i].req = arg.info.request

\* The package directory resolve_node_modules looks for.
ModulePath == PathJoin(arg.dir, ModuleName(arg.info.request.target))

\* The info the steps of the chain may have handed on: the given request with
\* the target as given or replaced by ".".
ChainTargets == {arg.info.request.target, <<".">>}

\* C12: resolve_node_modules returns Success, Error or Resolving, never Failed;
\* when the package directory does not exist and the result is Resolving, it
\* carries the info the call was given; when the package directory exists, a
\* step that answered Failed shows as Resolving.
C12_NeverFailed ==
    Returned("resolve_node_modules")
    => /\ ret.out.st.tag \in {"Success", "Error", "Resolving"}
       /\ (~is_dir(ModulePath) /\ ret.out.st.tag = "Resolving")
          => ret.out.st = Resolving(arg.info)
       /\ (/\ is_dir(ModulePath)
           /\ \E n \in DOMAIN world.plugins :
                 /\ world.plugins[n] = "failed"
                 /\ ret.out.log[Len(ret.out.log)].ev = n)
          => /\ ret.out.st.tag = "Resolving"
             /\ ret.out.st.info.request.target \in ChainTargets

\* The chain of an existing package directory ended with a plugin answering Failed.
C12_Witness ==
    /\ Returned("resolve_node_modules")
    /\ is_dir(ModulePath)
    /\ \E n \in DOMAIN world.plugins :
          /\ world.plugins[n] = "failed"
          /\ ret.out.log[Len(ret.out.log)].ev = n
    /\ ret.out.st.tag = "Resolving"

\* What resolve_as_dir sees: the directory, its manifest, the rewritten info.
DirPath == to_resolved_path(arg.info)
DirInfo == with_target(with_path(arg.info, DirPath), <<".">>)

\* The failure, Error and order parts shared by C13 as stated and as amended:
\* a path that is not an existing directory gives Failed with the info given;
\* a manifest that does not load gives Error and no rule is applied; with a
\* manifest, the main-field rule is applied first, to the rewritten info.
DirBasics ==
    /\ ~is_dir(DirPath) => ret.out.st = Failed(arg.info)
    /\ (is_dir(DirPath) /\ pkg_info(DirPath).tag = "Err")
       => /\ ret.out.st = Error(pkg_info(DirPath).err)
          /\ EventsOfKind(ret.out.log, "MainField") = {}
          /\ EventsOfKind(ret.out.log, "MainFile") = {}
    /\ (is_dir(DirPath) /\ pkg_info(DirPath).tag = "Ok" /\ pkg_info(DirPath).v # None)
       => /\ Len(ret.out.log) >= 2
          /\ ret.out.log[2] = Ev("MainField", DirInfo.path, DirInfo.request)
          /\ \A i \in EventsOfKind(ret.out.log, "MainFile") : i > 2

\* C13 as stated: on an existing directory with a manifest the main-file probe
\* is applied after the main-field rule whatever that rule answered.
C13_AsStated ==
    Returned("resolve_as_dir")
    => /\ DirBasics
       /\ (is_dir(DirPath) /\ pkg_info(DirPath).tag = "Ok" /\ pkg_info(DirPath).v # None)
          => EventsOfKind(ret.out.log, "MainFile") # {}

\* C13, amended: the main-file probe is applied, after the main-field rule,
\* exactly when that rule answered Resolving; any other answer of the
\* main-field rule is the result, and the main-file probe is not applied.
C13_MainFieldThenMainFile ==
    Returned("resolve_as_dir")
    => /\ DirBasics
       /\ (is_dir(DirPath) /\ pkg_info(DirPath).tag = "Ok" /\ pkg_info(DirPath).v # None)
          => IF world.plugins["MainField"] = "pass"
             THEN /\ Len(ret.out.log) = 3
                  /\ ret.out.log[3] = Ev("MainFile", DirInfo.path, DirInfo.request)
                  /\ ret.out.st = MainFilePlugin(DirInfo).st
             ELSE /\ EventsOfKind(ret.out.log, "MainFile") = {}
                  /\ ret.out.st = MainFieldPlugin(pkg_info(DirPath).v.v, DirInfo).st

\* resolve_as_dir has returned for a directory with a manifest whose main-field
\* rule answered Failed.
C13_Witness ==
    /\ Returned("resolve_as_dir")
    /\ is_dir(DirPath)
    /\ pkg_info(DirPath).tag = "Ok"
    /\ pkg_info(DirPath).v # None
    /\ world.plugins["MainField"] = "failed"
    /\ ret.out.st.tag = "Failed"

\* The recursive resolve of a candidate, rooted at the package's directory.
CandidateResolve(candidate) ==
    _resolve(with_request(InfoNew(ApplyManifest.dir, NoReq), Parse(candidate)))

\* The candidates that end the loop: one that fails check_target, or one whose
\* resolve is Success or Error.
DecidingCandidates ==
    {i \in 1..Len(ApplyCandidates.v) :
        \/ ~check_target(Parse(ApplyCandidates.v[i]).target)
        \/ is_finished(CandidateResolve(ApplyCandidates.v[i]).st)}

\* The effects of resolving the candidates 1..n, one after the other.
RECURSIVE CandidateLogs(_)
CandidateLogs(n) ==
    IF n = 0 THEN <<>>
    ELSE CandidateLogs(n - 1) \o CandidateResolve(ApplyCandidates.v[n]).log

\* C14: the candidates are taken in the order field_process gave them; the
\* result of apply is the state of the first candidate whose resolve is Success
\* or Error, and the candidates after it are not resolved; a candidate that
\* fails check_target, with no finished candidate before it, makes the result
\* an Error naming the manifest's directory, and neither it nor a later
\* candidate is resolved.
C14_CandidateOrder ==
    (/\ Returned("apply")
     /\ ApplyManifest.exports_field_tree # None
     /\ ApplyKey # None
     /\ ApplyCandidates.tag = "Ok"
     /\ DecidingCandidates # {})
    => LET first == CHOOSE i \in DecidingCandidates : \A j \in DecidingCandidates : i <= j
           asked == <<ret.out.log[1]>>
       IN  IF check_target(Parse(ApplyCandidates.v[first]).target)
           THEN /\ ret.out.st = CandidateResolve(ApplyCandidates.v[first]).st
                /\ ret.out.log = asked \o CandidateLogs(first)
           ELSE /\ ret.out.st.tag = "Error"
                /\ ret.out.st.err.at = ApplyManifest.dir
                /\ ret.out.log = asked \o CandidateLogs(first - 1)

\* apply has returned for two candidates that both exist as files.
C14_Witness ==
    /\ Returned("apply")
    /\ ApplyManifest.exports_field_tree # None
    /\ ApplyKey # None
    /\ ApplyCandidates.tag = "Ok"
    /\ Len(ApplyCandidates.v) = 2
    /\ \A i \in 1..2 : /\ check_target(Parse(ApplyCandidates.v[i]).target)
                       /\ CandidateResolve(ApplyCandidates.v[i]).st.tag = "Success"
    /\ ret.out.st.tag = "Success"

\* The package directory under the first module-storage directory examined.
FirstPackage == PathJoin(FirstLocation, ModuleName(arg.info.request.target))

\* The event examines a module-storage directory, or finds a package
\* directory, whose manifest does not load.
IsLoadFailure(e) ==
    \/ e.ev = "modules" /\ pkg_info(e.path).tag = "Err"
    \/ e.ev = "package" /\ is_dir(e.path) /\ pkg_info(e.path).tag = "Err"

\* C15: a manifest that does not load ends the operation with that Error and no
\* further step: resolve_as_dir after the probe of the directory;
\* resolve_node_modules after finding the package directory;
\* resolve_as_modules at the first module-storage directory it examines, whether
\* or not that directory exists, and at the package directory found in it,
\* with no later name examined and no ancestor resolved; and wherever in the
\* walk of resolve_as_modules a manifest does not load, nothing happens after.
C15_ManifestLoadFailure ==
    /\ Returned("resolve_as_modules")
       => \A i \in 1..Len(ret.out.log) :
             IsLoadFailure(ret.out.log[i])
             => /\ i = Len(ret.out.log)
                /\ ret.out.st = Error(pkg_info(ret.out.log[i].path).err)
    /\ (Returned("resolve_as_dir") /\ is_dir(DirPath) /\ pkg_info(DirPath).tag = "Err")
       => /\ ret.out.st = Error(pkg_info(DirPath).err)
          /\ ret.out.log = <<Probe(DirPath)>>
    /\ (Returned("resolve_node_modules") /\ is_dir(ModulePath)
        /\ pkg_info(ModulePath).tag = "Err")
       => /\ ret.out.st = Error(pkg_info(ModulePath).err)
          /\ ret.out.log = <<Ev("package", ModulePath, arg.info.request)>>
    /\ (Returned("resolve_as_modules") /\ pkg_info(FirstLocation).tag = "Err")
       => /\ ret.out.st = Error(pkg_info(FirstLocation).err)
          /\ ret.out.log = <<Ev("modules", FirstLocation, arg.info.request)>>
    /\ (Returned("resolve_as_modules") /\ pkg_info(FirstLocation).tag = "Ok"
        /\ is_dir(FirstLocation) /\ is_dir(FirstPackage)
        /\ pkg_info(FirstPackage).tag = "Err")
       => /\ ret.out.st = Error(pkg_info(FirstPackage).err)
          /\ ret.out.log = <<Ev("modules", FirstLocation, arg.info.request),
                             Ev("package", FirstPackage, arg.info.request)>>

\* resolve_as_modules has returned: the manifest above the first module-storage
\* directory does not load, that directory does not exist, a second name is
\* configured and ancestors exist.
C15_Witness ==
    /\ Returned("resolve_as_modules")
    /\ pkg_info(FirstLocation).tag = "Err"
    /\ ~is_dir(FirstLocation)
    /\ Len(world.options.modules) = 2
    /\ arg.info.path = dDAB
    /\ ret.out.st.tag = "Error"

\* Every find-up leaves a directory for its strict parent: the event after a
\* "find_up" is the resolve at the parent of the directory left, so no find-up
\* leaves the root.
FindUpsClimb(log) ==
    \A i \in EventsOfKind(log, "find_up") :
        /\ i < Len(log)
        /\ log[i + 1].ev = "resolve"
        /\ PathParent(log[i].path) = Some(log[i + 1].path)
        /\ Len(log[i + 1].path) < Len(log[i].path)

\* The directories at and above a path.
AncestorsOrSelf(path) == {SubSeq(path, 1, n) : n \in 0..Len(path)}

\* C16: a call of resolve_as_modules that has returned has returned Success,
\* Error or Failed; every find-up it made went from a directory to its strict
\* parent, none was made from the root, and every directory a find-up left is
\* the starting directory or one of its ancestors, so the climb is bounded by
\* the depth of the starting directory.
C16_Termination ==
    Returned("resolve_as_modules")
    => /\ ret.out.st.tag \in {"Success", "Error", "Failed"}
       /\ FindUpsClimb(ret.out.log)
       /\ \A i \in EventsOfKind(ret.out.log, "find_up") :
             /\ ret.out.log[i].path # <<>>
             /\ ret.out.log[i].path \in AncestorsOrSelf(arg.info.path)

\* The walk climbed from d/a/b to the root, examined the module-storage
\* directory there, and ended in Failed.
C16_Witness ==
    /\ Returned("resolve_as_modules")
    /\ arg.info.path = dDAB
    /\ \E i \in EventsOfKind(ret.out.log, "find_up") : ret.out.log[i].path = dD
    /\ \E i \in EventsOfKind(ret.out.log, "modules") : ret.out.log[i].path = <<Mod_n>>
    /\ ret.out.st.tag = "Failed"

\* The lookup key the claim gives for a target: "." followed by the text from
\* the boundary '/' on, or "." when the target has no boundary.
StatedKey(t) ==
    IF HasBoundary(t) THEN <<".">> \o SubSeq(t, BoundaryPos(t), Len(t)) ELSE <<".">>

\* The key the claim says is passed to field_process.
StatedLookup(request) ==
    IF request.query = <<>> /\ request.fragment = <<>> THEN StatedKey(request.target)
    ELSE (IF StatedKey(request.target) = <<".">> THEN <<".", "/">>
          ELSE StatedKey(request.target)) \o request.query \o request.fragment

\* The exports rule applies: the target has a subpath, or names an existing
\* path under the base directory, or is the package's name.
RuleApplies ==
    \/ HasBoundary(arg.info.request.target)
    \/ exists(PathJoin(arg.info.path, arg.info.request.target))
    \/ ApplyManifest.name = Some(arg.info.request.target)

\* C17: with an exports tree and the rule applying, field_process is asked, for
\* the package's manifest, the key "." + subpath, or "." without a subpath,
\* followed by the query and the fragment when one of them is not empty, with
\* "./" in place of a key that is exactly "."; with both empty the key is
\* asked unchanged.
C17_LookupKey ==
    (/\ Returned("apply")
     /\ ApplyManifest.exports_field_tree # None
     /\ RuleApplies)
    => /\ Len(ret.out.log) >= 1
       /\ ret.out.log[1] = Ev("field_process", ApplyManifest.dir,
                              Request(StatedLookup(arg.info.request), <<>>, <<>>))

\* apply has returned for a request without a subpath, with a query and a fragment.
C17_Witness ==
    /\ Returned("apply")
    /\ ApplyManifest.exports_field_tree # None
    /\ RuleApplies
    /\ ~HasBoundary(arg.info.request.target)
    /\ arg.info.request.query # <<>>
    /\ arg.info.request.fragment # <<>>
    /\ ret.out.log[1].req.target = <<".", "/", "?", "q", "#", "f">>

\* The names resolve_as_modules got to: those with no finished name before them.
NamesTried ==
    {i \in 1..Len(world.options.modules) :
        \A j \in FinishedNames(arg.info) : i <= j}

\* The effects of the attempt for the i-th name, as they lie in the log.
AttemptSegment(i) ==
    SubSeq(ret.out.log, Len(AttemptLogs(arg.info, i - 1)) + 1, Len(AttemptLogs(arg.info, i)))

\* The module-storage directory a configured name stands for.
LocationOf(module) ==
    IF is_absolute(module) THEN Components(module) ELSE PathJoin(arg.info.path, module)

\* C18: for every absolute name resolve_as_modules got to, the attempt examines
\* the named location, once, and no other module-storage directory, and makes
\* no find-up; when the attempt does not finish, the next configured name is
\* examined next, and after the last name the result is Failed.
C18_AbsoluteName ==
    Returned("resolve_as_modules")
    => \A i \in NamesTried :
          is_absolute(world.options.modules[i])
          => /\ Len(ret.out.log) >= Len(AttemptLogs(arg.info, i))
             /\ AttemptSegment(i)[1] =
                    Ev("modules", LocationOf(world.options.modules[i]), arg.info.request)
             /\ EventsOfKind(AttemptSegment(i), "modules") = {1}
             /\ EventsOfKind(AttemptSegment(i), "find_up") = {}
             /\ ~(i \in FinishedNames(arg.info))
                => IF i < Len(world.options.modules)
                   THEN ret.out.log[Len(AttemptLogs(arg.info, i)) + 1] =
                            Ev("modules", LocationOf(world.options.modules[i + 1]),
                               arg.info.request)
                   ELSE ret.out.st = Failed(arg.info)

\* The absolute name comes first, its location holds the package but the chain
\* there does not finish, and the walk went on to the relative name.
C18_Witness ==
    /\ Returned("resolve_as_modules")
    /\ Len(world.options.modules) = 2
    /\ is_absolute(world.options.modules[1])
    /\ is_dir(LocationOf(world.options.modules[1]) \o <<Str_p>>)
    /\ ~(1 \in FinishedNames(arg.info))
    /\ arg.info.path = dDAB
    /\ \E i \in EventsOfKind(ret.out.log, "find_up") : TRUE

====
